---- MODULE Spec2Model ----
(***************************************************************************)
(* The time-driven state container of the beacon state package             *)
(* (pkg/exporter/consensus/beacon/state/state.go): the cursor              *)
(* (currentEpoch, currentSlot), the epoch window, the two background loops *)
(* and the caller-invoked operations.                                      *)
(*                                                                         *)
(* Time is counted in ticks (the model's nanosecond).  Optional values     *)
(* (nil pointers, absent blocks and duties) are sequences of length 0 or 1.*)
(***************************************************************************)
EXTENDS Integers, Sequences, FiniteSets, TLC

VARIABLES
    spec,              \* c.spec: <<>> (nil) or <<[SecondsPerSlot, SlotsPerEpoch]>>
    genesis,           \* c.genesis: <<>> (nil) or <<[GenesisTime]>>
    epochs,            \* c.epochs: epoch number -> Epoch, DOMAIN = epochs present
    currentEpoch,      \* c.currentEpoch
    currentSlot,       \* c.currentSlot
    now,               \* the wall clock, in ticks
    cancelled,         \* ctx.Done() is closed
    pcTicker,          \* position of the ticker goroutine
    tickerWakeAt,      \* when the ticker's time.After fires
    pcSlotLoop,        \* position of the currentSlotLoop goroutine
    nextSlotStartsAt,  \* currentSlotLoop's local nextSlotStartsAt
    crashed,           \* the process died of a runtime panic
    lastCall,          \* the last operation performed: what it was given, returned and dispatched
    calls,             \* number of calls made by the container's users
    calc,              \* inputs and result of a stand-alone clock derivation
    checks,            \* goroutine -> its call of checkForNewCurrentEpochAndSlot in progress
    dispatched,        \* the notifications dispatched by the checks in progress, in order
    pending,           \* dispatch goroutines of epoch-changed started by go, not yet running
    delivered,         \* epochs of epoch-changed in the order their delivery began
    hydration,         \* the ticker's call of hydrateEpochs in progress
    insertion,         \* a caller's call of AddBeaconBlock in progress
    attached           \* slots of the blocks whose AddBeaconBlock returned no error

\* the state of the calls in progress, when the calls are followed statement by
\* statement
inFlight == <<checks, dispatched, pending, delivered, hydration, insertion, attached>>

vars == <<spec, genesis, epochs, currentEpoch, currentSlot, now, cancelled, pcTicker,
          tickerWakeAt, pcSlotLoop, nextSlotStartsAt, crashed, lastCall, calls, calc,
          inFlight>>

---------------------------------------------------------------------------
(* Bounds and scales of the model *)

\* Width of the significand of the model's floating point numbers (float64: 53).
MantBits == 8
\* Ticks in one second (time.Second: 10^9 nanoseconds).
TicksPerSecond == 10
\* Width of phase0.Epoch and phase0.Slot (uint64: 64).
WordBits == 8
\* The wall clock of the container runs for at most this many seconds after genesis.
MaxSeconds == 9
\* The container's users make at most this many calls.
MaxCalls == 2
\* Largest slot index k of the stand-alone clock derivations.
MaxK == 12

---------------------------------------------------------------------------
(* Program constants *)

SurroundingEpochDistance == 1
\* time.Second * 5, the ticker's interval, in seconds
TickerSeconds == 5

RECURSIVE Pow2(_)
Pow2(k) == IF k <= 0 THEN 1 ELSE 2 * Pow2(k - 1)

UintMod == Pow2(WordBits)

\* unsigned arithmetic of phase0.Epoch / phase0.Slot
USub(a, b) == (a - b + UintMod) % UintMod
UAdd(a, b) == (a + b) % UintMod

---------------------------------------------------------------------------
(* Floating point: a float is <<n, d>>, the number n/d, d a power of two,  *)
(* with a significand of MantBits bits; only non-negative values occur.    *)
(* Every operation rounds its exact result to nearest, ties to even.       *)
(* Intermediate values are bound (x \in {e}) so that each is evaluated once. *)

RECURSIVE Reduce(_, _)
Reduce(n, d) == IF d > 1 /\ n % 2 = 0 THEN Reduce(n \div 2, d \div 2) ELSE <<n, d>>

RoundNearestEven(num, den) ==
    LET q == num \div den
        r == num % den
    IN  IF 2 * r < den THEN q
        ELSE IF 2 * r > den THEN q + 1
        ELSE IF q % 2 = 0 THEN q ELSE q + 1

\* least e >= 0 with n/d < 2^MantBits * 2^e
RECURSIVE ScaleDown(_, _, _)
ScaleDown(n, d, e) ==
    IF n < Pow2(MantBits) * d * Pow2(e) THEN e ELSE ScaleDown(n, d, e + 1)

\* least k >= 0 with n/d * 2^k >= 2^(MantBits-1)
RECURSIVE ScaleUp(_, _, _)
ScaleUp(n, d, k) ==
    IF n * Pow2(k) >= Pow2(MantBits - 1) * d THEN k ELSE ScaleUp(n, d, k + 1)

\* the float nearest to the rational n/d (n >= 0, d > 0)
Nearest(n, d) ==
    IF n = 0 THEN <<0, 1>>
    ELSE IF n >= Pow2(MantBits - 1) * d
         THEN CHOOSE r \in {<<RoundNearestEven(n, d * Pow2(e)) * Pow2(e), 1>> :
                               e \in {ScaleDown(n, d, 0)}} : TRUE
         ELSE CHOOSE r \in
                  {Reduce(m[1], m[2]) :
                      m \in {<<RoundNearestEven(n * Pow2(k), d), Pow2(k)>> :
                                k \in {ScaleUp(n, d, 0)}}} : TRUE

FRound(x, y) == CHOOSE r \in {Nearest(n, d) : n \in {x}, d \in {y}} : TRUE
\* float64(x) of an integer
FromInt(x) == FRound(x, 1)
FAdd(x, y) ==
    CHOOSE r \in {FRound(a[1] * b[2] + b[1] * a[2], a[2] * b[2]) : a \in {x}, b \in {y}} :
        TRUE
FDiv(x, y) ==
    CHOOSE r \in {FRound(a[1] * b[2], a[2] * b[1]) : a \in {x}, b \in {y}} : TRUE
\* conversion of a non-negative float to an unsigned integer: truncation
FTrunc(a) == (a[1] \div a[2]) % UintMod

\* time.Duration.Seconds(): float64(d / Second) + float64(d % Second) / 1e9
Seconds(d) ==
    FAdd(FromInt(d \div TicksPerSecond),
         FDiv(FromInt(d % TicksPerSecond), FromInt(TicksPerSecond)))

---------------------------------------------------------------------------
(* Spec, Epochs, Epoch and Slot: the collaborators of the container *)

\* Spec.Validate(): "" or the validation error
Validate(sp) ==
    IF sp.SecondsPerSlot <= 0 THEN "invalid seconds per slot"
    ELSE IF sp.SlotsPerEpoch <= 0 THEN "invalid slots per epoch"
    ELSE ""

EmptySlot(n) == [Number |-> n, block |-> <<>>, duty |-> <<>>]

\* NewEpoch: all slotsPerEpoch slots allocated, each empty
NewEpoch(number, slotsPerEpoch) ==
    [Number |-> number,
     slots  |-> [n \in (number * slotsPerEpoch) .. ((number + 1) * slotsPerEpoch - 1)
                    |-> EmptySlot(n)]]

\* Epochs.Exists
Exists(eps, number) == number \in DOMAIN eps

\* Epochs.GetEpoch: the epoch, or a not-found error; never creates
EpochsGetEpoch(eps, number) ==
    IF number \in DOMAIN eps
    THEN [err |-> "", epoch |-> <<eps[number]>>]
    ELSE [err |-> "epoch not found", epoch |-> <<>>]

\* Epochs.NewInitializedEpoch: stores a freshly initialized epoch under its number
NewInitializedEpoch(eps, number, sp) ==
    [err |-> "", epochs |-> (number :> NewEpoch(number, sp.SlotsPerEpoch)) @@ eps]

\* Epochs.RemoveEpoch
RemoveEpoch(eps, number) ==
    [err |-> "", epochs |-> [n \in (DOMAIN eps) \ {number} |-> eps[n]]]

\* Epoch.AddBlock: the block's slot must be one of the epoch's; stores the block
EpochAddBlock(epoch, block) ==
    IF block.slot \in DOMAIN epoch.slots
    THEN [err |-> "",
          epoch |-> [epoch EXCEPT !.slots[block.slot].block = <<block>>]]
    ELSE [err |-> "slot out of range", epoch |-> epoch]

\* Epoch.GetSlot
EpochGetSlot(epoch, slotNumber) ==
    IF slotNumber \in DOMAIN epoch.slots
    THEN [err |-> "", slot |-> <<epoch.slots[slotNumber]>>]
    ELSE [err |-> "slot not found", slot |-> <<>>]

\* Epoch.SetProposerDuties: every duty goes to its slot; a duty for a slot the
\* epoch does not own fails the call
EpochSetProposerDuties(epoch, duties) ==
    IF \E i \in 1..Len(duties) : duties[i].Slot \notin DOMAIN epoch.slots
    THEN [err |-> "slot not found", epoch |-> epoch]
    ELSE [err |-> "",
          epoch |-> [epoch EXCEPT !.slots =
                        [n \in DOMAIN epoch.slots |->
                            IF \E i \in 1..Len(duties) : duties[i].Slot = n
                            THEN [epoch.slots[n] EXCEPT !.duty =
                                    <<duties[CHOOSE i \in 1..Len(duties) : duties[i].Slot = n]>>]
                            ELSE epoch.slots[n]]]]

\* Slot.ProposerDelay: fails when no block has been observed
ProposerDelay(slot) == IF slot.block = <<>> THEN "block not observed" ELSE ""

\* Slot.ProposerDuty: fails when no duty was assigned
ProposerDuty(slot) == IF slot.duty = <<>> THEN "proposer duty not found" ELSE ""

---------------------------------------------------------------------------
(* The container's methods, as functions of the state they read *)

Note(kind, epoch, slot, snapshot) ==
    [kind |-> kind, epoch |-> epoch, slot |-> slot, snapshot |-> snapshot]

\* calculateEpochFromSlot: slotNumber / c.spec.SlotsPerEpoch.  A nil spec or a
\* zero SlotsPerEpoch is a runtime panic.
CalcPanics(sp) == sp = <<>> \/ sp[1].SlotsPerEpoch = 0
calculateEpochFromSlot(sp, slotNumber) == slotNumber \div sp[1].SlotsPerEpoch

\* getCurrentEpochAndSlot at wall-clock time t
getCurrentEpochAndSlot(sp, gen, t) ==
    IF sp = <<>> THEN [err |-> "spec not initialized", epoch |-> 0, slot |-> 0]
    ELSE IF gen = <<>> THEN [err |-> "genesis not fetched", epoch |-> 0, slot |-> 0]
    ELSE IF Validate(sp[1]) # "" THEN [err |-> Validate(sp[1]), epoch |-> 0, slot |-> 0]
    ELSE CHOOSE got \in
             {[err |-> "", epoch |-> currentSlot_ \div sp[1].SlotsPerEpoch,
               slot |-> currentSlot_] :
                 currentSlot_ \in {FTrunc(FDiv(Seconds(t - gen[1].GenesisTime),
                                              Seconds(sp[1].SecondsPerSlot)))}} : TRUE

\* createEpoch
createEpoch(eps, epochNumber, sp) == NewInitializedEpoch(eps, epochNumber, sp[1])

\* the loop of hydrateEpochs: for i := ...; i <= hi; i++, in unsigned arithmetic
RECURSIVE hydrateLoop(_, _, _, _)
hydrateLoop(eps, i, hi, sp) ==
    IF i <= hi
    THEN IF EpochsGetEpoch(eps, i).err # ""
         THEN LET made == createEpoch(eps, i, sp)
              IN  IF made.err # "" THEN [err |-> made.err, epochs |-> eps]
                  ELSE hydrateLoop(made.epochs, UAdd(i, 1), hi, sp)
         ELSE hydrateLoop(eps, UAdd(i, 1), hi, sp)
    ELSE [err |-> "", epochs |-> eps]

\* a variant of hydrateEpochs that keeps a rolling window: it drops the epochs
\* further than SurroundingEpochDistance from the cursor
hydrateEpochs_evicts(eps, epoch, sp) ==
    LET h == hydrateLoop(eps, USub(epoch, SurroundingEpochDistance),
                         UAdd(epoch, SurroundingEpochDistance), sp)
        near == {n \in DOMAIN h.epochs :
                    /\ n + SurroundingEpochDistance >= epoch
                    /\ n <= epoch + SurroundingEpochDistance}
    IN  [err |-> h.err, epochs |-> [n \in near |-> h.epochs[n]]]

\* hydrateEpochs with the cursor at epoch
hydrateEpochs(eps, epoch, sp) ==
    hydrateLoop(eps, USub(epoch, SurroundingEpochDistance),
                UAdd(epoch, SurroundingEpochDistance), sp)

\* a variant of checkWith that dispatches the combined notification only when
\* both the epoch and the slot changed
checkWith_bothChanged(got, curEpoch, curSlot) ==
    LET epochChanged == got.epoch # curEpoch
        slotChanged == got.slot # curSlot
    IN  IF got.err # ""
        THEN [err |-> got.err, epoch |-> curEpoch, slot |-> curSlot, published |-> <<>>]
        ELSE [err |-> "", epoch |-> got.epoch, slot |-> got.slot,
              published |->
                  (IF epochChanged
                   THEN <<Note("epoch_changed", <<got.epoch>>, <<>>, <<>>)>> ELSE <<>>)
                  \o (IF slotChanged
                      THEN <<Note("slot_changed", <<>>, <<got.slot>>, <<>>)>> ELSE <<>>)
                  \o (IF epochChanged /\ slotChanged
                      THEN <<Note("epoch_slot_changed", <<got.epoch>>, <<got.slot>>, <<>>)>>
                      ELSE <<>>)]

\* a variant of checkWith that drops the error of the clock
checkWith_swallows(got, curEpoch, curSlot) ==
    IF got.err # ""
    THEN [err |-> "", epoch |-> curEpoch, slot |-> curSlot, published |-> <<>>]
    ELSE [err |-> "", epoch |-> got.epoch, slot |-> got.slot,
          published |->
              (IF got.epoch # curEpoch
               THEN <<Note("epoch_changed", <<got.epoch>>, <<>>, <<>>)>> ELSE <<>>)
              \o (IF got.slot # curSlot
                  THEN <<Note("slot_changed", <<>>, <<got.slot>>, <<>>)>> ELSE <<>>)
              \o (IF got.epoch # curEpoch \/ got.slot # curSlot
                  THEN <<Note("epoch_slot_changed", <<got.epoch>>, <<got.slot>>, <<>>)>>
                  ELSE <<>>)]

\* checkForNewCurrentEpochAndSlot with the clock's answer got: the new cursor
\* and the notifications dispatched (go c.publish...), in order
checkWith(got, curEpoch, curSlot) ==
    LET epochChanged == got.epoch # curEpoch
        slotChanged == got.slot # curSlot
    IN  IF got.err # ""
        THEN [err |-> got.err, epoch |-> curEpoch, slot |-> curSlot, published |-> <<>>]
        ELSE [err |-> "", epoch |-> got.epoch, slot |-> got.slot,
              published |->
                  (IF epochChanged
                   THEN <<Note("epoch_changed", <<got.epoch>>, <<>>, <<>>)>> ELSE <<>>)
                  \o (IF slotChanged
                      THEN <<Note("slot_changed", <<>>, <<got.slot>>, <<>>)>> ELSE <<>>)
                  \o (IF epochChanged \/ slotChanged
                      THEN <<Note("epoch_slot_changed", <<got.epoch>>, <<got.slot>>, <<>>)>>
                      ELSE <<>>)]

\* checkForNewCurrentEpochAndSlot at wall-clock time t
checkForNewCurrentEpochAndSlot(sp, gen, t, curEpoch, curSlot) ==
    CHOOSE c \in {checkWith(got, curEpoch, curSlot) :
                     got \in {getCurrentEpochAndSlot(sp, gen, t)}} : TRUE

Returned(err, eps, published) ==
    [err |-> err, panic |-> FALSE, epochs |-> eps, published |-> published]

\* a variant of ensureEpoch that fills the window around the block's epoch
ensureEpoch_hydrates(eps, epochNumber, sp) ==
    IF ~Exists(eps, epochNumber)
    THEN hydrateEpochs(eps, epochNumber, sp)
    ELSE [err |-> "", epochs |-> eps]

\* AddBeaconBlock, the epoch of the block: created when the window lacks it
ensureEpoch(eps, epochNumber, sp) ==
    IF ~Exists(eps, epochNumber)
    THEN createEpoch(eps, epochNumber, sp)
    ELSE [err |-> "", epochs |-> eps]

\* a variant of reportInserted that fails for a slot without a proposer duty
reportInserted_requiresDuty(eps, epochNumber, slot) ==
    IF ProposerDelay(slot) # "" THEN Returned(ProposerDelay(slot), eps, <<>>)
    ELSE IF ProposerDuty(slot) # "" THEN Returned(ProposerDuty(slot), eps, <<>>)
    ELSE Returned("", eps, <<Note("block_inserted", <<epochNumber>>, <<>>, <<slot>>)>>)

\* AddBeaconBlock, after the insertion: the proposer delay must be known, a
\* missing proposer duty is logged only, and the insertion is published
reportInserted(eps, epochNumber, slot) ==
    IF ProposerDelay(slot) # "" THEN Returned(ProposerDelay(slot), eps, <<>>)
    ELSE Returned("", eps, <<Note("block_inserted", <<epochNumber>>, <<>>, <<slot>>)>>)

\* AddBeaconBlock, from the block's slot number on
insertBlock(eps, sp, b) ==
    LET slotNumber == b.slot
        epochNumber == calculateEpochFromSlot(sp, slotNumber)
        made == ensureEpoch(eps, epochNumber, sp)
        found == EpochsGetEpoch(made.epochs, epochNumber)
        added == EpochAddBlock(found.epoch[1], b)
        stored == [made.epochs EXCEPT ![epochNumber] = added.epoch]
        slot == EpochGetSlot(added.epoch, slotNumber)
    IN  IF made.err # "" THEN Returned(made.err, eps, <<>>)
        ELSE IF found.err # "" THEN Returned(found.err, made.epochs, <<>>)
        ELSE IF added.err # "" THEN Returned(added.err, made.epochs, <<>>)
        ELSE IF slot.err # "" THEN Returned(slot.err, stored, <<>>)
        ELSE reportInserted(stored, epochNumber, slot.slot[1])

\* a variant of AddBeaconBlock that reads the slot of the block unchecked
AddBeaconBlock_noNilCheck(eps, sp, block) ==
    IF block = <<>> \/ CalcPanics(sp)
    THEN [err |-> "", panic |-> TRUE, epochs |-> eps, published |-> <<>>]
    ELSE IF block[1].kind # "ok" THEN Returned("no slot in block", eps, <<>>)
    ELSE insertBlock(eps, sp, block[1])

\* AddBeaconBlock; block is <<>> for nil.  panic: the call died in
\* calculateEpochFromSlot.
AddBeaconBlock(eps, sp, block) ==
    IF block = <<>> THEN Returned("beacon block is nil", eps, <<>>)
    ELSE IF block[1].kind # "ok" THEN Returned("no slot in block", eps, <<>>)
    ELSE IF CalcPanics(sp)
    THEN [err |-> "", panic |-> TRUE, epochs |-> eps, published |-> <<>>]
    ELSE insertBlock(eps, sp, block[1])

\* a variant of SetProposerDuties that drops the error of the lookup
SetProposerDuties_ignoresMissing(eps, epochNumber, duties) ==
    LET found == EpochsGetEpoch(eps, epochNumber)
    IN  IF found.err # "" THEN [err |-> "", epochs |-> eps]
        ELSE LET set == EpochSetProposerDuties(found.epoch[1], duties)
             IN  IF set.err # "" THEN [err |-> set.err, epochs |-> eps]
                 ELSE [err |-> "", epochs |-> [eps EXCEPT ![epochNumber] = set.epoch]]

\* SetProposerDuties
SetProposerDuties(eps, epochNumber, duties) ==
    LET found == EpochsGetEpoch(eps, epochNumber)
        set == EpochSetProposerDuties(found.epoch[1], duties)
    IN  IF found.err # "" THEN [err |-> found.err, epochs |-> eps]
        ELSE IF set.err # "" THEN [err |-> set.err, epochs |-> eps]
        ELSE [err |-> "", epochs |-> [eps EXCEPT ![epochNumber] = set.epoch]]

\* a variant of GetSlot that answers with an empty slot when the epoch is absent
GetSlot_zeroValue(eps, sp, slotNumber) ==
    LET found == EpochsGetEpoch(eps, calculateEpochFromSlot(sp, slotNumber))
    IN  IF found.err # "" THEN [err |-> "", slot |-> <<EmptySlot(slotNumber)>>]
        ELSE EpochGetSlot(found.epoch[1], slotNumber)

\* GetSlot
GetSlot(eps, sp, slotNumber) ==
    LET found == EpochsGetEpoch(eps, calculateEpochFromSlot(sp, slotNumber))
    IN  IF found.err # "" THEN [err |-> found.err, slot |-> <<>>]
        ELSE EpochGetSlot(found.epoch[1], slotNumber)

\* GetEpoch
GetEpoch(eps, epochNumber) == EpochsGetEpoch(eps, epochNumber)

\* DeleteEpoch
DeleteEpoch(eps, epochNumber) == RemoveEpoch(eps, epochNumber)

---------------------------------------------------------------------------
(* Inputs *)

ValidSpecs ==
    {<<[SecondsPerSlot |-> 2 * TicksPerSecond, SlotsPerEpoch |-> 2]>>,
     <<[SecondsPerSlot |-> 2 * TicksPerSecond, SlotsPerEpoch |-> 32]>>}
InvalidSpecs ==
    {<<[SecondsPerSlot |-> 0, SlotsPerEpoch |-> 2]>>,
     <<[SecondsPerSlot |-> 2 * TicksPerSecond, SlotsPerEpoch |-> 0]>>}
SomeGenesis == <<[GenesisTime |-> 0]>>
\* <<spec, genesis>> as given to NewContainer
Configurations ==
    ((ValidSpecs \cup InvalidSpecs \cup {<<>>}) \X {SomeGenesis})
        \cup (ValidSpecs \X {<<>>})
StartTimes == {4 * TicksPerSecond}
MaxNow == MaxSeconds * TicksPerSecond
BlockSlots == {3, 100}
Blocks ==
    {<<>>, <<[kind |-> "bad", slot |-> 0]>>}
        \cup {<<[kind |-> "ok", slot |-> s]>> : s \in BlockSlots}
EpochNumbers == {1, 3}
\* <<epochNumber, duties>> as given to SetProposerDuties
DutyCalls ==
    {<<1, <<[Slot |-> 3, ValidatorIndex |-> 7]>> >>,
     <<3, <<[Slot |-> 100, ValidatorIndex |-> 9]>> >>}

---------------------------------------------------------------------------
(* The state machine *)

Call(op, err, block, number, hydrateErr, checkErr, published) ==
    [op |-> op, err |-> err, block |-> block, number |-> number,
     hydrateErr |-> hydrateErr, checkErr |-> checkErr, published |-> published,
     preEpoch |-> currentEpoch, preSlot |-> currentSlot]

NoCalc == [phase |-> "none", G |-> 0, D |-> 0, P |-> 0, k |-> 0, eps |-> 0,
           err |-> "", epoch |-> 0, slot |-> 0]

Goroutines == {"ticker", "currentSlotLoop"}
IdleCheck == [pc |-> "idle", epoch |-> 0, slot |-> 0, epochChanged |-> FALSE,
              slotChanged |-> FALSE]
IdleHydration == [pc |-> "idle", i |-> 0, hi |-> 0]
IdleInsertion == [pc |-> "idle", block |-> <<>>, epochNumber |-> 0, stale |-> FALSE]
\* no call is in progress and nothing has been dispatched
NothingInFlight ==
    /\ checks = [g \in Goroutines |-> IdleCheck]
    /\ dispatched = <<>>
    /\ pending = {}
    /\ delivered = <<>>
    /\ hydration = IdleHydration
    /\ insertion = IdleInsertion
    /\ attached = {}

\* NewContainer: the cursor at 0/0, an empty window, no goroutine started
Init ==
    /\ \E cfg \in Configurations : spec = cfg[1] /\ genesis = cfg[2]
    /\ epochs = <<>>
    /\ currentEpoch = 0
    /\ currentSlot = 0
    /\ now \in StartTimes
    /\ cancelled = FALSE
    /\ pcTicker = "unstarted"
    /\ tickerWakeAt = 0
    /\ pcSlotLoop = "unstarted"
    /\ nextSlotStartsAt = 0
    /\ crashed = FALSE
    /\ lastCall = [op |-> "NewContainer", err |-> "", block |-> <<>>, number |-> -1,
                   hydrateErr |-> <<>>, checkErr |-> <<>>, published |-> <<>>,
                   preEpoch |-> 0, preSlot |-> 0]
    /\ calls = 0
    /\ calc = NoCalc
    /\ NothingInFlight

\* Container.Init: hydrate, then start the two goroutines
ContainerInit ==
    /\ ~crashed
    /\ pcTicker = "unstarted" /\ pcSlotLoop = "unstarted"
    /\ lastCall.op # "Init"
    /\ LET h == hydrateEpochs(epochs, currentEpoch, spec)
       IN  /\ epochs' = h.epochs
           /\ lastCall' = Call("Init", h.err, <<>>, -1, <<h.err>>, <<>>, <<>>)
           /\ IF h.err # ""
              THEN UNCHANGED <<pcTicker, pcSlotLoop>>
              ELSE pcTicker' = "tick" /\ pcSlotLoop' = "top"
    /\ UNCHANGED <<spec, genesis, currentEpoch, currentSlot, now, cancelled,
                   tickerWakeAt, nextSlotStartsAt, crashed, calls, calc,
                   inFlight>>

\* tick: hydrateEpochs, then checkForNewCurrentEpochAndSlot; both errors are logged
Tick ==
    \E h \in {hydrateEpochs(epochs, currentEpoch, spec)},
       c \in {checkForNewCurrentEpochAndSlot(spec, genesis, now, currentEpoch,
                                             currentSlot)} :
        /\ epochs' = h.epochs
        /\ currentEpoch' = c.epoch
        /\ currentSlot' = c.slot
        /\ lastCall' = Call("tick", "", <<>>, -1, <<h.err>>, <<c.err>>, c.published)

\* ticker: the tick before the loop
TickerFirstTick ==
    /\ ~crashed
    /\ pcTicker = "tick"
    /\ Tick
    /\ pcTicker' = "select"
    /\ tickerWakeAt' = now + TickerSeconds * TicksPerSecond
    /\ UNCHANGED <<spec, genesis, now, cancelled, pcSlotLoop, nextSlotStartsAt,
                   crashed, calls, calc,
                   inFlight>>

\* ticker: case <-time.After(time.Second * 5)
TickerWake ==
    /\ ~crashed
    /\ pcTicker = "select"
    /\ now >= tickerWakeAt
    /\ Tick
    /\ tickerWakeAt' = now + TickerSeconds * TicksPerSecond
    /\ UNCHANGED <<spec, genesis, now, cancelled, pcTicker, pcSlotLoop,
                   nextSlotStartsAt, crashed, calls, calc,
                   inFlight>>

\* ticker: case <-ctx.Done()
TickerCancel ==
    /\ ~crashed
    /\ pcTicker = "select"
    /\ cancelled
    /\ pcTicker' = "done"
    /\ UNCHANGED <<spec, genesis, epochs, currentEpoch, currentSlot, now, cancelled,
                   tickerWakeAt, pcSlotLoop, nextSlotStartsAt, crashed, lastCall, calls, calc,
                   inFlight>>

\* currentSlotLoop: the top of the loop reads c.currentSlot and computes
\* nextSlotStartsAt; a nil genesis or spec is a runtime panic
SlotLoopTop ==
    /\ ~crashed
    /\ pcSlotLoop = "top"
    /\ IF genesis = <<>> \/ spec = <<>>
       THEN /\ crashed' = TRUE
            /\ lastCall' = Call("currentSlotLoop", "panic", <<>>, -1, <<>>, <<>>, <<>>)
            /\ UNCHANGED <<pcSlotLoop, nextSlotStartsAt>>
       ELSE /\ nextSlotStartsAt' =
                  genesis[1].GenesisTime + spec[1].SecondsPerSlot * (currentSlot + 1)
            /\ pcSlotLoop' = "select"
            /\ UNCHANGED <<crashed, lastCall>>
    /\ UNCHANGED <<spec, genesis, epochs, currentEpoch, currentSlot, now, cancelled,
                   pcTicker, tickerWakeAt, calls, calc,
                   inFlight>>

\* currentSlotLoop: case <-time.After(time.Until(nextSlotStartsAt)); an error of
\* the check ends the loop
SlotLoopWake ==
    /\ ~crashed
    /\ pcSlotLoop = "select"
    /\ now >= nextSlotStartsAt
    /\ \E c \in {checkForNewCurrentEpochAndSlot(spec, genesis, now, currentEpoch,
                                                currentSlot)} :
           /\ currentEpoch' = c.epoch
           /\ currentSlot' = c.slot
           /\ lastCall' = Call("currentSlotLoop", c.err, <<>>, -1, <<>>, <<c.err>>,
                               c.published)
           /\ pcSlotLoop' = IF c.err # "" THEN "done" ELSE "top"
    /\ UNCHANGED <<spec, genesis, epochs, now, cancelled, pcTicker, tickerWakeAt,
                   nextSlotStartsAt, crashed, calls, calc,
                   inFlight>>

\* a variant of SlotLoopCancel that goes round the loop again
SlotLoopCancel_continues ==
    /\ ~crashed
    /\ pcSlotLoop = "select"
    /\ cancelled
    /\ pcSlotLoop' = "top"
    /\ UNCHANGED <<spec, genesis, epochs, currentEpoch, currentSlot, now, cancelled,
                   pcTicker, tickerWakeAt, nextSlotStartsAt, crashed, lastCall, calls, calc,
                   inFlight>>

\* currentSlotLoop: case <-ctx.Done()
SlotLoopCancel ==
    /\ ~crashed
    /\ pcSlotLoop = "select"
    /\ cancelled
    /\ pcSlotLoop' = "done"
    /\ UNCHANGED <<spec, genesis, epochs, currentEpoch, currentSlot, now, cancelled,
                   pcTicker, tickerWakeAt, nextSlotStartsAt, crashed, lastCall, calls, calc,
                   inFlight>>

\* the wall clock advances by a second
AdvanceClock ==
    /\ ~crashed
    /\ now + TicksPerSecond <= MaxNow
    /\ now' = now + TicksPerSecond
    /\ UNCHANGED <<spec, genesis, epochs, currentEpoch, currentSlot, cancelled, pcTicker,
                   tickerWakeAt, pcSlotLoop, nextSlotStartsAt, crashed, lastCall, calls, calc,
                   inFlight>>

\* the context is cancelled
Cancel ==
    /\ ~crashed
    /\ ~cancelled
    /\ cancelled' = TRUE
    /\ UNCHANGED <<spec, genesis, epochs, currentEpoch, currentSlot, now, pcTicker,
                   tickerWakeAt, pcSlotLoop, nextSlotStartsAt, crashed, lastCall, calls, calc,
                   inFlight>>

CallAddBeaconBlock(block) ==
    /\ ~crashed
    /\ calls < MaxCalls
    /\ calls' = calls + 1
    /\ LET r == AddBeaconBlock(epochs, spec, block)
       IN  /\ epochs' = r.epochs
           /\ crashed' = r.panic
           /\ lastCall' = Call("AddBeaconBlock", IF r.panic THEN "panic" ELSE r.err,
                               block, -1, <<>>, <<>>, r.published)
    /\ UNCHANGED <<spec, genesis, currentEpoch, currentSlot, now, cancelled, pcTicker,
                   tickerWakeAt, pcSlotLoop, nextSlotStartsAt, calc,
                   inFlight>>

CallSetProposerDuties(epochNumber, duties) ==
    /\ ~crashed
    /\ calls < MaxCalls
    /\ calls' = calls + 1
    /\ LET r == SetProposerDuties(epochs, epochNumber, duties)
       IN  /\ epochs' = r.epochs
           /\ lastCall' = Call("SetProposerDuties", r.err, <<>>, epochNumber, <<>>, <<>>,
                               <<>>)
    /\ UNCHANGED <<spec, genesis, currentEpoch, currentSlot, now, cancelled, pcTicker,
                   tickerWakeAt, pcSlotLoop, nextSlotStartsAt, crashed, calc,
                   inFlight>>

CallGetSlot(slotNumber) ==
    /\ ~crashed
    /\ calls < MaxCalls
    /\ calls' = calls + 1
    /\ IF CalcPanics(spec)
       THEN /\ crashed' = TRUE
            /\ lastCall' = Call("GetSlot", "panic", <<>>, slotNumber, <<>>, <<>>, <<>>)
       ELSE /\ lastCall' = Call("GetSlot", GetSlot(epochs, spec, slotNumber).err, <<>>,
                                slotNumber, <<>>, <<>>, <<>>)
            /\ UNCHANGED crashed
    /\ UNCHANGED <<spec, genesis, epochs, currentEpoch, currentSlot, now, cancelled,
                   pcTicker, tickerWakeAt, pcSlotLoop, nextSlotStartsAt, calc,
                   inFlight>>

CallGetEpoch(epochNumber) ==
    /\ ~crashed
    /\ calls < MaxCalls
    /\ calls' = calls + 1
    /\ lastCall' = Call("GetEpoch", GetEpoch(epochs, epochNumber).err, <<>>, epochNumber,
                        <<>>, <<>>, <<>>)
    /\ UNCHANGED <<spec, genesis, epochs, currentEpoch, currentSlot, now, cancelled,
                   pcTicker, tickerWakeAt, pcSlotLoop, nextSlotStartsAt, crashed, calc,
                   inFlight>>

CallDeleteEpoch(epochNumber) ==
    /\ ~crashed
    /\ calls < MaxCalls
    /\ calls' = calls + 1
    /\ LET r == DeleteEpoch(epochs, epochNumber)
       IN  /\ epochs' = r.epochs
           /\ lastCall' = Call("DeleteEpoch", r.err, <<>>, epochNumber, <<>>, <<>>, <<>>)
    /\ UNCHANGED <<spec, genesis, currentEpoch, currentSlot, now, cancelled, pcTicker,
                   tickerWakeAt, pcSlotLoop, nextSlotStartsAt, crashed, calc,
                   inFlight>>

Next ==
    \/ ContainerInit
    \/ TickerFirstTick
    \/ TickerWake
    \/ TickerCancel
    \/ SlotLoopTop
    \/ SlotLoopWake
    \/ SlotLoopCancel
    \/ AdvanceClock
    \/ Cancel
    \/ \E block \in Blocks : CallAddBeaconBlock(block)
    \/ \E d \in DutyCalls : CallSetProposerDuties(d[1], d[2])
    \/ \E s \in BlockSlots : CallGetSlot(s)
    \/ \E n \in EpochNumbers : CallGetEpoch(n)
    \/ \E n \in EpochNumbers : CallDeleteEpoch(n)

Spec == Init /\ [][Next]_vars

\* The container with its two goroutines, the clock and the cancellation, its
\* users making no call.  The goroutines are scheduled: a goroutine that can
\* take a step other than the firing of its timer eventually takes it.
NextLoops ==
    \/ ContainerInit
    \/ TickerFirstTick
    \/ TickerWake
    \/ TickerCancel
    \/ SlotLoopTop
    \/ SlotLoopWake
    \/ SlotLoopCancel
    \/ AdvanceClock
    \/ Cancel

FairSpec ==
    /\ Init
    /\ [][NextLoops]_vars
    /\ WF_vars(TickerFirstTick)
    /\ WF_vars(TickerCancel)
    /\ WF_vars(SlotLoopTop)
    /\ WF_vars(SlotLoopCancel)

---------------------------------------------------------------------------
(* The two goroutines running checkForNewCurrentEpochAndSlot statement by  *)
(* statement: the container has no lock, so the reads and writes of the    *)
(* cursor by the ticker and by currentSlotLoop interleave.                 *)

\* line 238: the goroutine samples the clock
Sampled(got) ==
    [pc |-> "sampled", epoch |-> got.epoch, slot |-> got.slot,
     epochChanged |-> FALSE, slotChanged |-> FALSE]

\* ticker: tick() hydrates, then enters the check; an error of the check is logged
TickerBeginCheck ==
    /\ ~crashed
    /\ pcTicker = "tick" \/ (pcTicker = "select" /\ now >= tickerWakeAt)
    /\ \E h \in {hydrateEpochs(epochs, currentEpoch, spec)},
          got \in {getCurrentEpochAndSlot(spec, genesis, now)} :
           /\ epochs' = h.epochs
           /\ IF got.err # ""
              THEN /\ pcTicker' = "select"
                   /\ tickerWakeAt' = now + TickerSeconds * TicksPerSecond
                   /\ UNCHANGED checks
              ELSE /\ pcTicker' = "check"
                   /\ checks' = [checks EXCEPT !["ticker"] = Sampled(got)]
                   /\ UNCHANGED tickerWakeAt
    /\ UNCHANGED <<spec, genesis, currentEpoch, currentSlot, now, cancelled, pcSlotLoop,
                   nextSlotStartsAt, crashed, lastCall, calls, calc, dispatched, pending,
                   delivered, hydration, insertion, attached>>

\* currentSlotLoop: the timer fired and the goroutine enters the check; an
\* error of the check ends the loop
SlotLoopBeginCheck ==
    /\ ~crashed
    /\ pcSlotLoop = "select"
    /\ now >= nextSlotStartsAt
    /\ \E got \in {getCurrentEpochAndSlot(spec, genesis, now)} :
           IF got.err # ""
           THEN pcSlotLoop' = "done" /\ UNCHANGED checks
           ELSE /\ pcSlotLoop' = "check"
                /\ checks' = [checks EXCEPT !["currentSlotLoop"] = Sampled(got)]
    /\ UNCHANGED <<spec, genesis, epochs, currentEpoch, currentSlot, now, cancelled,
                   pcTicker, tickerWakeAt, nextSlotStartsAt, crashed, lastCall, calls, calc,
                   dispatched, pending, delivered, hydration, insertion, attached>>

\* line 245: if epoch != c.currentEpoch
TestEpoch(g) ==
    /\ ~crashed
    /\ checks[g].pc = "sampled"
    /\ checks' = [checks EXCEPT ![g].pc = IF checks[g].epoch # currentEpoch
                                          THEN "writeEpoch" ELSE "epochDone"]
    /\ UNCHANGED <<spec, genesis, epochs, currentEpoch, currentSlot, now, cancelled,
                   pcTicker, tickerWakeAt, pcSlotLoop, nextSlotStartsAt, crashed, lastCall,
                   calls, calc, dispatched, pending, delivered, hydration, insertion,
                   attached>>

\* lines 246-251: c.currentEpoch = epoch; epochChanged = true; go publishEpochChanged
WriteEpoch(g) ==
    /\ ~crashed
    /\ checks[g].pc = "writeEpoch"
    /\ currentEpoch' = checks[g].epoch
    /\ dispatched' = Append(dispatched,
                            Note("epoch_changed", <<checks[g].epoch>>, <<>>, <<>>))
    /\ pending' = pending \cup {Len(dispatched) + 1}
    /\ checks' = [checks EXCEPT ![g].pc = "epochDone", ![g].epochChanged = TRUE]
    /\ UNCHANGED <<spec, genesis, epochs, currentSlot, now, cancelled, pcTicker,
                   tickerWakeAt, pcSlotLoop, nextSlotStartsAt, crashed, lastCall, calls,
                   calc, delivered, hydration, insertion, attached>>

\* line 256: if slot != c.currentSlot
TestSlot(g) ==
    /\ ~crashed
    /\ checks[g].pc = "epochDone"
    /\ checks' = [checks EXCEPT ![g].pc = IF checks[g].slot # currentSlot
                                          THEN "writeSlot" ELSE "slotDone"]
    /\ UNCHANGED <<spec, genesis, epochs, currentEpoch, currentSlot, now, cancelled,
                   pcTicker, tickerWakeAt, pcSlotLoop, nextSlotStartsAt, crashed, lastCall,
                   calls, calc, dispatched, pending, delivered, hydration, insertion,
                   attached>>

\* lines 257-262: c.currentSlot = slot; slotChanged = true; go publishSlotChanged
WriteSlot(g) ==
    /\ ~crashed
    /\ checks[g].pc = "writeSlot"
    /\ currentSlot' = checks[g].slot
    /\ dispatched' = Append(dispatched,
                            Note("slot_changed", <<>>, <<checks[g].slot>>, <<>>))
    /\ checks' = [checks EXCEPT ![g].pc = "slotDone", ![g].slotChanged = TRUE]
    /\ UNCHANGED <<spec, genesis, epochs, currentEpoch, now, cancelled, pcTicker,
                   tickerWakeAt, pcSlotLoop, nextSlotStartsAt, crashed, lastCall, calls,
                   calc, pending, delivered, hydration, insertion, attached>>

\* lines 265-270: go publishEpochSlotChanged if either changed, and return to
\* the goroutine's loop
FinishCheck(g) ==
    /\ ~crashed
    /\ checks[g].pc = "slotDone"
    /\ dispatched' =
           IF checks[g].epochChanged \/ checks[g].slotChanged
           THEN Append(dispatched, Note("epoch_slot_changed", <<checks[g].epoch>>,
                                        <<checks[g].slot>>, <<>>))
           ELSE dispatched
    /\ checks' = [checks EXCEPT ![g] = IdleCheck]
    /\ IF g = "ticker"
       THEN /\ pcTicker' = "select"
            /\ tickerWakeAt' = now + TickerSeconds * TicksPerSecond
            /\ UNCHANGED pcSlotLoop
       ELSE /\ pcSlotLoop' = "top"
            /\ UNCHANGED <<pcTicker, tickerWakeAt>>
    /\ UNCHANGED <<spec, genesis, epochs, currentEpoch, currentSlot, now, cancelled,
                   nextSlotStartsAt, crashed, lastCall, calls, calc, pending, delivered,
                   hydration, insertion, attached>>

\* a goroutine started by go c.publishEpochChanged gets to run and begins to
\* deliver its notification
BeginDelivery ==
    /\ ~crashed
    /\ \E i \in pending :
           /\ pending' = pending \ {i}
           /\ delivered' = Append(delivered, dispatched[i].epoch[1])
    /\ UNCHANGED <<spec, genesis, epochs, currentEpoch, currentSlot, now, cancelled,
                   pcTicker, tickerWakeAt, pcSlotLoop, nextSlotStartsAt, crashed, lastCall,
                   calls, calc, checks, dispatched, hydration, insertion, attached>>

NextInterleavedChecks ==
    \/ ContainerInit
    \/ TickerBeginCheck
    \/ SlotLoopTop
    \/ SlotLoopBeginCheck
    \/ \E g \in Goroutines : TestEpoch(g)
    \/ \E g \in Goroutines : WriteEpoch(g)
    \/ \E g \in Goroutines : TestSlot(g)
    \/ \E g \in Goroutines : WriteSlot(g)
    \/ \E g \in Goroutines : FinishCheck(g)
    \/ BeginDelivery
    \/ AdvanceClock

SpecInterleavedChecks == Init /\ [][NextInterleavedChecks]_vars

---------------------------------------------------------------------------
(* The ticker's hydrateEpochs and a caller's AddBeaconBlock statement by   *)
(* statement: each tests for the epoch and then creates it, with no lock   *)
(* around the two.                                                         *)

\* ticker: tick() enters hydrateEpochs; lines 179-182 read the cursor
TickerBeginHydrate ==
    /\ ~crashed
    /\ pcTicker = "tick" \/ (pcTicker = "select" /\ now >= tickerWakeAt)
    /\ pcTicker' = "hydrate"
    /\ hydration' = [pc |-> "test",
                     i |-> USub(currentEpoch, SurroundingEpochDistance),
                     hi |-> UAdd(currentEpoch, SurroundingEpochDistance)]
    /\ UNCHANGED <<spec, genesis, epochs, currentEpoch, currentSlot, now, cancelled,
                   tickerWakeAt, pcSlotLoop, nextSlotStartsAt, crashed, lastCall, calls,
                   calc, checks, dispatched, pending, delivered, insertion, attached>>

\* lines 182-183: i <= epoch+SurroundingEpochDistance, then c.epochs.GetEpoch(i)
HydrateTest ==
    /\ ~crashed
    /\ hydration.pc = "test"
    /\ hydration' =
           IF hydration.i <= hydration.hi
           THEN IF EpochsGetEpoch(epochs, hydration.i).err # ""
                THEN [hydration EXCEPT !.pc = "create"]
                ELSE [hydration EXCEPT !.i = UAdd(hydration.i, 1)]
           ELSE [hydration EXCEPT !.pc = "check"]
    /\ UNCHANGED <<spec, genesis, epochs, currentEpoch, currentSlot, now, cancelled,
                   pcTicker, tickerWakeAt, pcSlotLoop, nextSlotStartsAt, crashed, lastCall,
                   calls, calc, checks, dispatched, pending, delivered, insertion, attached>>

\* line 184: c.createEpoch(ctx, i).  The epoch object a caller holds for the
\* same number is no longer the one of the window.
HydrateCreate ==
    /\ ~crashed
    /\ hydration.pc = "create"
    /\ \E made \in {createEpoch(epochs, hydration.i, spec)} :
           /\ epochs' = made.epochs
           /\ hydration' = IF made.err # ""
                           THEN [hydration EXCEPT !.pc = "check"]
                           ELSE [hydration EXCEPT !.pc = "test",
                                                  !.i = UAdd(hydration.i, 1)]
           /\ insertion' =
                  IF /\ made.err = ""
                     /\ insertion.pc = "insert"
                     /\ insertion.epochNumber = hydration.i
                  THEN [insertion EXCEPT !.stale = TRUE]
                  ELSE insertion
    /\ UNCHANGED <<spec, genesis, currentEpoch, currentSlot, now, cancelled, pcTicker,
                   tickerWakeAt, pcSlotLoop, nextSlotStartsAt, crashed, lastCall, calls,
                   calc, checks, dispatched, pending, delivered, attached>>

\* tick(), after hydrateEpochs: checkForNewCurrentEpochAndSlot, in one step
TickerCheck ==
    /\ ~crashed
    /\ hydration.pc = "check"
    /\ \E c \in {checkForNewCurrentEpochAndSlot(spec, genesis, now, currentEpoch,
                                                currentSlot)} :
           /\ currentEpoch' = c.epoch
           /\ currentSlot' = c.slot
    /\ hydration' = IdleHydration
    /\ pcTicker' = "select"
    /\ tickerWakeAt' = now + TickerSeconds * TicksPerSecond
    /\ UNCHANGED <<spec, genesis, epochs, now, cancelled, pcSlotLoop, nextSlotStartsAt,
                   crashed, lastCall, calls, calc, checks, dispatched, pending, delivered,
                   insertion, attached>>

\* AddBeaconBlock, lines 117-129: the nil check, the slot of the block, its
\* epoch, c.epochs.Exists
InsertBegin(block) ==
    /\ ~crashed
    /\ calls < MaxCalls
    /\ insertion.pc = "idle"
    /\ calls' = calls + 1
    /\ IF block = <<>> \/ block[1].kind # "ok"
       THEN UNCHANGED <<insertion, crashed>>
       ELSE IF CalcPanics(spec)
       THEN crashed' = TRUE /\ UNCHANGED insertion
       ELSE /\ insertion' =
                  [pc |-> IF Exists(epochs, calculateEpochFromSlot(spec, block[1].slot))
                          THEN "get" ELSE "create",
                   block |-> block,
                   epochNumber |-> calculateEpochFromSlot(spec, block[1].slot),
                   stale |-> FALSE]
            /\ UNCHANGED crashed
    /\ UNCHANGED <<spec, genesis, epochs, currentEpoch, currentSlot, now, cancelled,
                   pcTicker, tickerWakeAt, pcSlotLoop, nextSlotStartsAt, lastCall, calc,
                   checks, dispatched, pending, delivered, hydration, attached>>

\* line 130: c.createEpoch(ctx, epochNumber)
InsertCreate ==
    /\ ~crashed
    /\ insertion.pc = "create"
    /\ \E made \in {createEpoch(epochs, insertion.epochNumber, spec)} :
           /\ epochs' = made.epochs
           /\ insertion' = IF made.err # "" THEN IdleInsertion
                           ELSE [insertion EXCEPT !.pc = "get"]
    /\ UNCHANGED <<spec, genesis, currentEpoch, currentSlot, now, cancelled, pcTicker,
                   tickerWakeAt, pcSlotLoop, nextSlotStartsAt, crashed, lastCall, calls,
                   calc, checks, dispatched, pending, delivered, hydration, attached>>

\* line 136: epoch, err := c.epochs.GetEpoch(epochNumber)
InsertGet ==
    /\ ~crashed
    /\ insertion.pc = "get"
    /\ insertion' = IF EpochsGetEpoch(epochs, insertion.epochNumber).err # ""
                    THEN IdleInsertion
                    ELSE [insertion EXCEPT !.pc = "insert", !.stale = FALSE]
    /\ UNCHANGED <<spec, genesis, epochs, currentEpoch, currentSlot, now, cancelled,
                   pcTicker, tickerWakeAt, pcSlotLoop, nextSlotStartsAt, crashed, lastCall,
                   calls, calc, checks, dispatched, pending, delivered, hydration, attached>>

\* lines 143-175: epoch.AddBlock on the epoch object held, epoch.GetSlot,
\* ProposerDelay, publishBlockInserted, return nil
InsertFinish ==
    /\ ~crashed
    /\ insertion.pc = "insert"
    /\ epochs' = IF insertion.stale
                 THEN epochs
                 ELSE [epochs EXCEPT ![insertion.epochNumber] =
                          EpochAddBlock(epochs[insertion.epochNumber],
                                        insertion.block[1]).epoch]
    /\ attached' = attached \cup {insertion.block[1].slot}
    /\ insertion' = IdleInsertion
    /\ UNCHANGED <<spec, genesis, currentEpoch, currentSlot, now, cancelled, pcTicker,
                   tickerWakeAt, pcSlotLoop, nextSlotStartsAt, crashed, lastCall, calls,
                   calc, checks, dispatched, pending, delivered, hydration>>

NextInterleavedWindow ==
    \/ ContainerInit
    \/ TickerBeginHydrate
    \/ HydrateTest
    \/ HydrateCreate
    \/ TickerCheck
    \/ SlotLoopTop
    \/ SlotLoopWake
    \/ \E block \in Blocks : InsertBegin(block)
    \/ InsertCreate
    \/ InsertGet
    \/ InsertFinish
    \/ AdvanceClock

SpecInterleavedWindow == Init /\ [][NextInterleavedWindow]_vars

---------------------------------------------------------------------------
(* Stand-alone clock derivation: getCurrentEpochAndSlot at G + k*D + eps *)

ClockGenesisTimes == {0, 7}
ClockSlotDurations == {1, 3, TicksPerSecond, 2 * TicksPerSecond, 12 * TicksPerSecond}
ClockSlotsPerEpoch == {1, 2, 32}

InitClock ==
    /\ spec = <<>>
    /\ genesis = <<>>
    /\ epochs = <<>>
    /\ currentEpoch = 0
    /\ currentSlot = 0
    /\ now = 0
    /\ cancelled = FALSE
    /\ pcTicker = "unstarted"
    /\ tickerWakeAt = 0
    /\ pcSlotLoop = "unstarted"
    /\ nextSlotStartsAt = 0
    /\ crashed = FALSE
    /\ lastCall = [op |-> "none", err |-> "", block |-> <<>>, number |-> -1,
                   hydrateErr |-> <<>>, checkErr |-> <<>>, published |-> <<>>,
                   preEpoch |-> 0, preSlot |-> 0]
    /\ calls = 0
    /\ NothingInFlight
    /\ \E G \in ClockGenesisTimes, D \in ClockSlotDurations, P \in ClockSlotsPerEpoch,
          k \in 0..MaxK, eps \in 0..(12 * TicksPerSecond) :
          /\ eps \in {0, D \div 2, D - 1}
          /\ calc = [phase |-> "in", G |-> G, D |-> D, P |-> P, k |-> k, eps |-> eps,
                     err |-> "", epoch |-> 0, slot |-> 0]

Derive ==
    /\ calc.phase = "in"
    /\ LET got == getCurrentEpochAndSlot(
                      <<[SecondsPerSlot |-> calc.D, SlotsPerEpoch |-> calc.P]>>,
                      <<[GenesisTime |-> calc.G]>>,
                      calc.G + calc.k * calc.D + calc.eps)
       IN  calc' = [calc EXCEPT !.phase = "out", !.err = got.err,
                                !.epoch = got.epoch, !.slot = got.slot]
    /\ UNCHANGED <<spec, genesis, epochs, currentEpoch, currentSlot, now, cancelled,
                   pcTicker, tickerWakeAt, pcSlotLoop, nextSlotStartsAt, crashed,
                   lastCall, calls, inFlight>>

NextClock == Derive

SpecClock == InitClock /\ [][NextClock]_vars

---------------------------------------------------------------------------
(* Properties *)

SlotsPerEpoch == spec[1].SlotsPerEpoch
\* this step is a call of op by a user of the container
Called(op) == calls' = calls + 1 /\ lastCall'.op = op
Kinds(published) == {published[i].kind : i \in 1..Len(published)}
\* the container was given a spec that validates and a genesis
Configured == spec # <<>> /\ genesis # <<>> /\ Validate(spec[1]) = ""
\* the last operation ran hydrateEpochs, which returned no error; the window has
\* not changed since
Hydrated == Configured /\ lastCall.hydrateErr = <<"">>
\* the last operation ran checkForNewCurrentEpochAndSlot, which returned no error
Checked == lastCall.checkErr = <<"">>
\* the epoch numbers e >= 0 with cur - distance <= e <= cur + distance
Surrounding(cur) ==
    {e \in 0..(cur + SurroundingEpochDistance) : e + SurroundingEpochDistance >= cur}

\* C1: after hydrateEpochs returns without error, every epoch number from
\* currentEpoch-1 (not below 0) to currentEpoch+1 is present in the window,
\* currentEpoch = 0 included.
C1_HydrateCoversSurrounding ==
    Hydrated => \A e \in Surrounding(lastCall.preEpoch) : e \in DOMAIN epochs

\* C2: hydration leaves exactly 2*SurroundingEpochDistance+1 epochs in the
\* window, around currentEpoch, and hydrating again with the same cursor
\* changes nothing.
C2_HydrateLeavesThree ==
    Hydrated =>
        /\ Cardinality(DOMAIN epochs) = 2 * SurroundingEpochDistance + 1
        /\ DOMAIN epochs \subseteq
               (lastCall.preEpoch - SurroundingEpochDistance) ..
               (lastCall.preEpoch + SurroundingEpochDistance)
        /\ hydrateEpochs(epochs, lastCall.preEpoch, spec).epochs = epochs

\* C3: one call of checkForNewCurrentEpochAndSlot from a consistent cursor:
\* slot S -> S+1 inside the epoch dispatches slot-changed and the combined
\* notification and no epoch-changed; across an epoch boundary it dispatches
\* all three; no change dispatches none; the combined notification goes out
\* exactly when one of the other two does.
C3_ChangeNotifications ==
    (Checked /\ lastCall.preEpoch = lastCall.preSlot \div SlotsPerEpoch) =>
        LET pub == lastCall.published
            epochNote == Note("epoch_changed", <<currentEpoch>>, <<>>, <<>>)
            slotNote == Note("slot_changed", <<>>, <<currentSlot>>, <<>>)
            bothNote == Note("epoch_slot_changed", <<currentEpoch>>, <<currentSlot>>, <<>>)
        IN  /\ (currentSlot = lastCall.preSlot + 1 /\ currentEpoch = lastCall.preEpoch)
                   => pub = <<slotNote, bothNote>>
            /\ (currentSlot = lastCall.preSlot + 1 /\ currentEpoch # lastCall.preEpoch)
                   => pub = <<epochNote, slotNote, bothNote>>
            /\ (currentSlot = lastCall.preSlot /\ currentEpoch = lastCall.preEpoch)
                   => pub = <<>>
            /\ "epoch_slot_changed" \in Kinds(pub)
                   <=> ("epoch_changed" \in Kinds(pub) \/ "slot_changed" \in Kinds(pub))
            /\ Len(pub) = Cardinality(Kinds(pub))

C3_Witness ==
    /\ Checked
    /\ lastCall.preEpoch = lastCall.preSlot \div SlotsPerEpoch
    /\ currentSlot = lastCall.preSlot + 1
    /\ currentEpoch = lastCall.preEpoch
    /\ Len(lastCall.published) = 2

\* C4: at wall-clock time G + k*D + eps (0 <= eps < D) getCurrentEpochAndSlot
\* returns slot k and epoch k / P, the epoch calculateEpochFromSlot gives for k.
C4_ClockDerivation ==
    calc.phase = "out" =>
        /\ calc.err = ""
        /\ calc.slot = calc.k
        /\ calc.epoch = calc.k \div calc.P
        /\ calc.epoch = calculateEpochFromSlot(
                            <<[SecondsPerSlot |-> calc.D, SlotsPerEpoch |-> calc.P]>>,
                            calc.k)

\* C5: neither loop ends for a reason other than cancellation: a failed check
\* leaves both loops running.
C5_LoopsSelfHealing ==
    /\ pcTicker = "done" => cancelled
    /\ pcSlotLoop = "done" => cancelled

LoopsTerminated ==
    \/ crashed
    \/ /\ pcTicker \in {"unstarted", "done"}
       /\ pcSlotLoop \in {"unstarted", "done"}

\* C6: once the context is cancelled both loops eventually end, whichever wait
\* they are in, and a loop that has ended updates no cursor, hydrates nothing
\* and dispatches nothing.
C6_CancellationEndsLoops ==
    /\ cancelled ~> LoopsTerminated
    /\ [][/\ pcTicker = "done" => pcTicker' = "done"
          /\ pcSlotLoop = "done" => pcSlotLoop' = "done"
          /\ (pcTicker = "done" /\ pcSlotLoop = "done") =>
                /\ currentEpoch' = currentEpoch
                /\ currentSlot' = currentSlot
                /\ lastCall' # lastCall =>
                       lastCall'.op \notin {"tick", "currentSlotLoop"}]_vars

C6_Witness ==
    /\ cancelled
    /\ ~crashed
    /\ pcTicker = "done"
    /\ pcSlotLoop = "done"
    /\ now < nextSlotStartsAt
    /\ now < tickerWakeAt

BlockEpoch(block) == block[1].slot \div SlotsPerEpoch

\* C7: AddBeaconBlock for slot s whose epoch is absent adds that one epoch,
\* with all its slots present and empty, leaves the other epochs as they were
\* and attaches the block to slot s only.
C7_InsertCreatesOneEpoch ==
    [][\A block \in Blocks :
          (/\ Called("AddBeaconBlock")
           /\ lastCall'.block = block
           /\ block # <<>>
           /\ block[1].kind = "ok"
           /\ ~CalcPanics(spec)
           /\ BlockEpoch(block) \notin DOMAIN epochs)
          => LET e == BlockEpoch(block)
                 s == block[1].slot
             IN  /\ lastCall'.err = ""
                 /\ DOMAIN epochs' = DOMAIN epochs \cup {e}
                 /\ \A n \in DOMAIN epochs : epochs'[n] = epochs[n]
                 /\ DOMAIN epochs'[e].slots =
                        (e * SlotsPerEpoch) .. ((e + 1) * SlotsPerEpoch - 1)
                 /\ \A n \in DOMAIN epochs'[e].slots :
                        n # s => epochs'[e].slots[n] = EmptySlot(n)
                 /\ epochs'[e].slots[s] = [EmptySlot(s) EXCEPT !.block = <<block[1]>>]
      ]_vars

C7_Witness ==
    /\ lastCall.op = "AddBeaconBlock"
    /\ lastCall.err = ""
    /\ SlotsPerEpoch = 32
    /\ lastCall.block[1].slot = 100
    /\ DOMAIN epochs = {0, 3}
    /\ epochs[0].slots[3].block # <<>>
    /\ DOMAIN epochs[3].slots = 96..127
    /\ {n \in DOMAIN epochs[3].slots : epochs[3].slots[n] # EmptySlot(n)} = {96 + 4}

\* C8: AddBeaconBlock with a nil block returns an error, leaves the window and
\* the cursor unchanged and dispatches no block-inserted notification.
C8_NilBlockRejected ==
    [][(Called("AddBeaconBlock") /\ lastCall'.block = <<>>) =>
          /\ lastCall'.err \notin {"", "panic"}
          /\ lastCall'.published = <<>>
          /\ UNCHANGED <<epochs, currentEpoch, currentSlot, crashed>>
      ]_vars

C8_Witness ==
    /\ lastCall.op = "AddBeaconBlock"
    /\ lastCall.block = <<>>
    /\ lastCall.err = "beacon block is nil"
    /\ epochs # <<>>

\* C9: a valid block for a slot without a proposer duty is inserted without
\* error; a call that returns no error dispatches exactly one block-inserted
\* notification, with the block's epoch number and a snapshot of the slot
\* holding the block; a call that returns an error dispatches none.
C9_BlockInsertedNotification ==
    (lastCall.op = "AddBeaconBlock" /\ lastCall.err # "panic") =>
        /\ lastCall.err # "" => lastCall.published = <<>>
        /\ lastCall.err = "" =>
              LET e == BlockEpoch(lastCall.block)
                  s == lastCall.block[1].slot
              IN  /\ e \in DOMAIN epochs
                  /\ epochs[e].slots[s].block = lastCall.block
                  /\ lastCall.published =
                         <<Note("block_inserted", <<e>>, <<>>, <<epochs[e].slots[s]>>)>>
        /\ (/\ lastCall.block # <<>>
            /\ lastCall.block[1].kind = "ok"
            /\ \A e \in DOMAIN epochs :
                  lastCall.block[1].slot \in DOMAIN epochs[e].slots
                      => epochs[e].slots[lastCall.block[1].slot].duty = <<>>)
               => lastCall.err = ""

C9_Witness ==
    /\ lastCall.op = "AddBeaconBlock"
    /\ lastCall.err = ""
    /\ Len(lastCall.published) = 1
    /\ lastCall.published[1].snapshot[1].duty = <<>>
    /\ lastCall.published[1].snapshot[1].block = lastCall.block

\* C10: SetProposerDuties for an epoch number absent from the window returns an
\* error, does not create the epoch and leaves the window and the cursor
\* unchanged.
C10_DutiesNeverCreate ==
    [][\A n \in EpochNumbers :
          (/\ Called("SetProposerDuties")
           /\ lastCall'.number = n
           /\ n \notin DOMAIN epochs) =>
              /\ lastCall'.err \notin {"", "panic"}
              /\ n \notin DOMAIN epochs'
              /\ UNCHANGED <<epochs, currentEpoch, currentSlot>>
      ]_vars

C10_Witness ==
    /\ lastCall.op = "SetProposerDuties"
    /\ lastCall.err = "epoch not found"
    /\ lastCall.number \notin DOMAIN epochs
    /\ epochs # <<>>

\* C11: GetSlot for a slot whose epoch is absent and GetEpoch for an absent
\* epoch return a not-found error and leave the window as it was.
C11_QueriesNeverCreate ==
    [][/\ (/\ Called("GetSlot")
           /\ ~CalcPanics(spec)
           /\ lastCall'.number \div SlotsPerEpoch \notin DOMAIN epochs)
          => (lastCall'.err = "epoch not found" /\ epochs' = epochs)
       /\ (/\ Called("GetEpoch")
           /\ lastCall'.number \notin DOMAIN epochs)
          => (lastCall'.err = "epoch not found" /\ epochs' = epochs)
      ]_vars

C11_Witness ==
    /\ lastCall.op = "GetSlot"
    /\ lastCall.err = "epoch not found"
    /\ epochs # <<>>
    /\ lastCall.number \div SlotsPerEpoch \notin DOMAIN epochs

\* C12: as long as no caller has called the container, the window holds at
\* most 2*SurroundingEpochDistance+1 epochs, however far the clock advances.
C12_WindowAtMostThree ==
    calls = 0 => Cardinality(DOMAIN epochs) <= 2 * SurroundingEpochDistance + 1

\* C13: an epoch leaves the window only by DeleteEpoch for its number, and an
\* epoch enters the window only by hydration or by AddBeaconBlock for a block
\* of that epoch.
C13_OnlyDeleteRemoves ==
    [][/\ \A n \in DOMAIN epochs :
             n \notin DOMAIN epochs' =>
                 (Called("DeleteEpoch") /\ lastCall'.number = n)
       /\ \A n \in DOMAIN epochs' :
             n \notin DOMAIN epochs =>
                 \/ lastCall'.op \in {"Init", "tick"} /\ lastCall'.hydrateErr # <<>>
                 \/ /\ Called("AddBeaconBlock")
                    /\ lastCall'.block # <<>>
                    /\ n = lastCall'.block[1].slot \div SlotsPerEpoch
      ]_vars

C13_Witness ==
    /\ lastCall.op = "DeleteEpoch"
    /\ lastCall.err = ""
    /\ lastCall.number \notin DOMAIN epochs
    /\ Cardinality(DOMAIN epochs) >= 3

ConfigurationError ==
    IF spec = <<>> THEN "spec not initialized"
    ELSE IF genesis = <<>> THEN "genesis not fetched"
    ELSE Validate(spec[1])

\* C15: when getCurrentEpochAndSlot fails, checkForNewCurrentEpochAndSlot
\* returns that error, leaves the cursor unchanged and dispatches nothing.
C15_FailedCheckChangesNothing ==
    (lastCall.checkErr # <<>> /\ ConfigurationError # "") =>
        /\ lastCall.checkErr = <<ConfigurationError>>
        /\ currentEpoch = lastCall.preEpoch
        /\ currentSlot = lastCall.preSlot
        /\ lastCall.published = <<>>

C15_Witness ==
    /\ lastCall.op = "currentSlotLoop"
    /\ lastCall.checkErr = <<ConfigurationError>>
    /\ ConfigurationError \notin {"", "spec not initialized", "genesis not fetched"}

\* C20: as long as no caller has called the container, after every completed
\* tick the epoch numbered currentEpoch is present in the window.
C20_CurrentEpochPresentAfterTick ==
    (lastCall.op = "tick" /\ Configured /\ calls = 0) =>
        /\ currentEpoch \in DOMAIN epochs
        /\ GetEpoch(epochs, currentEpoch).err = ""

NoCheckInProgress == \A g \in Goroutines : checks[g].pc = "idle"

\* C16: the epoch-changed notification for epoch X begins to be delivered
\* before the one for epoch X+1 does.
C16_EpochChangedInOrder ==
    \A i, j \in DOMAIN delivered :
        i < j => delivered[i] # delivered[j] + 1

\* C17: whenever no check is in progress the cursor is consistent:
\* currentEpoch = currentSlot / slotsPerEpoch.
C17_CursorConsistent ==
    (Configured /\ NoCheckInProgress) => currentEpoch = currentSlot \div SlotsPerEpoch

\* C18: with a non-decreasing clock, currentSlot and currentEpoch never decrease.
C18_CursorMonotonic ==
    [][currentSlot' >= currentSlot /\ currentEpoch' >= currentEpoch]_vars

\* C19: for every slot number s, at most one slot-changed notification
\* carrying s is dispatched over the life of the container.
C19_SlotAnnouncedOnce ==
    \A i, j \in DOMAIN dispatched :
        (/\ dispatched[i].kind = "slot_changed"
         /\ dispatched[j].kind = "slot_changed"
         /\ dispatched[i].slot = dispatched[j].slot) => i = j

====
